---- MODULE Spec2Model ----
(***************************************************************************)
(* A model of the Roborock map parser:                                     *)
(*   - the primitive readers and the block decoders of                     *)
(*     RoborockMapDataParser (map_data_parser.py),                         *)
(*   - the pixel loop of RoborockImageParser.parse (image_parser.py),      *)
(*   - the block walker RoborockMapDataParser.parse.                       *)
(* Bytes are the integers 0..255, a bytes object is a sequence of them,    *)
(* and Python's 0-based indexes are kept: Item(data, i) is data[i].        *)
(* A Python exception is the result Raise; a normal return is Ret(v).      *)
(* None is the empty tuple and a present optional value v is <<v>>.        *)
(***************************************************************************)
EXTENDS Integers, Sequences, FiniteSets, TLC

VARIABLES
    call,                  \* a block decoder called on its own: the call
    ret,                   \* ... and what it returned (None before)
    trim,                  \* ImageConfig.trim: left, right, top, bottom, in percent
    cached_room_colors,    \* ColorsPalette.cached_room_colors: room number -> colour
    im_pc,                 \* RoborockImageParser.parse: idle, loop, returned, raised
    raw_data, width, height, carpet_map,   \* ... its arguments
    img_x, img_y,          \* ... the pixel the loop is at
    cur,                   \* ... idx, pixel_type, x, y of the last pixel (None before)
    pixels,                \* ... the image: (x, y) -> colour
    rooms,                 \* ... room number -> (x0, y0, x1, y1)
    im_ret,                \* ... the (image, rooms) it returned (None before)
    cache_at_call,         \* history: cached_room_colors when the call was made
    pc,                    \* RoborockMapDataParser.parse: idle, scanning, returned, raised
    raw,                   \* ... its argument, the unpacked map
    block_start_position,  \* ... where the next block starts
    map_data,              \* ... the MapData it fills
    img,                   \* ... img_start, img_data, ... of the image block (None before)
    stream                 \* history: the blocks raw was put together from

decoderVars == <<call, ret>>
paletteVars == <<trim, cached_room_colors>>
imageVars == <<im_pc, raw_data, width, height, carpet_map, img_x, img_y, cur, pixels, rooms,
               im_ret, cache_at_call>>
parseVars == <<pc, raw, block_start_position, map_data, img, stream>>
vars == <<decoderVars, paletteVars, imageVars, parseVars>>

None == << >>
Some(v) == << v >>

Raise == [raised |-> TRUE]
Ret(v) == [raised |-> FALSE, value |-> v]

Min(a, b) == IF a < b THEN a ELSE b
Max(a, b) == IF a > b THEN a ELSE b

---------------------------------------------------------------------------
(* Python indexing and slicing of a bytes object or a list.                *)

\* data[i] raises IndexError unless -len <= i < len
IndexOk(data, i) == i >= -Len(data) /\ i < Len(data)

\* data[i]; a negative i counts from the end
Item(data, i) == IF i >= 0 THEN data[i + 1] ELSE data[Len(data) + i + 1]

\* every index address .. address + n - 1 can be read
ReadOk(data, address, n) == \A k \in 0..(n - 1) : IndexOk(data, address + k)

\* data[start_index : start_index + size] for start_index, size >= 0:
\* a slice is clamped to the data, it never raises
_get_bytes(data, start_index, size) ==
    SubSeq(data, Min(start_index, Len(data)) + 1, Min(start_index + size, Len(data)))

_get_int8(data, address) == Item(data, address) % 256

_get_int16(data, address) ==
    (Item(data, address) % 256) + ((Item(data, address + 1) * 256) % 65536)

\* The last mask, & 0xFFFFFFFF, leaves a byte shifted by 24 as it is; it is
\* not taken here because TLC's integers end at 2^31 - 1. The inputs keep the
\* top byte of a 32-bit field below 128, so every value read is below 2^31.
_get_int32(data, address) ==
    (Item(data, address) % 256)
    + ((Item(data, address + 1) * 256) % 65536)
    + ((Item(data, address + 2) * 65536) % 16777216)
    + (Item(data, address + 3) * 16777216)

---------------------------------------------------------------------------
(* Values of vacuum_map_parser_base.map_data, as the parser builds them.   *)

Point(x, y, a) == [x |-> x, y |-> y, a |-> a]

Path(point_length, point_size, angle, path) ==
    [point_length |-> point_length, point_size |-> point_size,
     angle |-> angle, path |-> path]

ObstacleDetails == [type |-> None, description |-> None,
                    confidence_level |-> None, photo_name |-> None]

Obstacle(x, y, details) == [x |-> x, y |-> y, details |-> details]

---------------------------------------------------------------------------
(* _parse_object_position                                                  *)

\* the mutant: the angle keeps its low byte, unsigned
normalize_angle_unsigned(a) == IF a > 255 THEN a % 256 ELSE a

\* if a > 0xFF: a = (a & 0xFF) - 256
normalize_angle(a) == IF a > 255 THEN (a % 256) - 256 ELSE a

_parse_object_position(block_data_length, data) ==
    IF ~ReadOk(data, 0, 8) THEN Raise
    ELSE LET x == _get_int32(data, 0)
             y == _get_int32(data, 4)
         IN  IF block_data_length > 8
             THEN IF ~ReadOk(data, 8, 4) THEN Raise
                  ELSE Ret(Point(x, y, Some(normalize_angle(_get_int32(data, 8)))))
             ELSE Ret(Point(x, y, None))

---------------------------------------------------------------------------
(* _parse_obstacles                                                        *)

KNOWN_OBSTACLE_TYPES ==
    [t \in {0, 1, 2, 3, 4, 5, 9, 10, 25, 26, 27, 34, 48, 49, 50, 51} |->
        CASE t = 0 -> "cable"
          [] t = 1 -> "pet waste"
          [] t = 2 -> "shoes"
          [] t = 3 -> "poop"
          [] t = 4 -> "pedestal"
          [] t = 5 -> "extension cord"
          [] t = 9 -> "weighting scale"
          [] t = 10 -> "clothes"
          [] t = 25 -> "dustpan"
          [] t = 26 -> "furniture with a crossbar"
          [] t = 27 -> "furniture with a crossbar"
          [] t = 34 -> "clothes"
          [] t = 48 -> "cable"
          [] t = 49 -> "pet"
          [] t = 50 -> "pet"
          [] t = 51 -> "fabric/paper balls"]

\* int(len(data) / obstacle_pairs): the quotient is cut to an integer
obstacle_size_of(data_length, obstacle_pairs) == data_length \div obstacle_pairs

\* one pass of the loop body raises: a read past the data, or a photo name
\* that is not ASCII (txt.decode("ascii"))
obstacle_raises(data, obstacle_start, obstacle_size) ==
    \/ ~ReadOk(data, obstacle_start, 4)
    \/ obstacle_size >= 6 /\ ~ReadOk(data, obstacle_start + 4, 2)
    \/ obstacle_size >= 10 /\ ~ReadOk(data, obstacle_start + 6, 4)
    \/ obstacle_size = 28 /\ ~IndexOk(data, obstacle_start + 12)
    \/ /\ obstacle_size = 28
       /\ IndexOk(data, obstacle_start + 12)
       /\ Item(data, obstacle_start + 12) % 256 > 0
       /\ LET txt == _get_bytes(data, obstacle_start + 12, 16)
          IN  \E k \in 1..Len(txt) : txt[k] > 127

\* confidence_level = 0 if u2 == 0 else u1 * 10.0 / u2, kept as a fraction
confidence_level_of(u1, u2) ==
    IF u2 = 0 THEN [num |-> 0, den |-> 1] ELSE [num |-> u1 * 10, den |-> u2]

\* the obstacle one pass of the loop appends
obstacle_at(data, obstacle_start, obstacle_size) ==
    LET x == _get_int16(data, obstacle_start)
        y == _get_int16(data, obstacle_start + 2)
        type == _get_int16(data, obstacle_start + 4)
        d1 == IF obstacle_size >= 6
              THEN [ObstacleDetails EXCEPT
                      !.type = Some(type),
                      !.description =
                          IF type \in DOMAIN KNOWN_OBSTACLE_TYPES
                          THEN Some(KNOWN_OBSTACLE_TYPES[type]) ELSE None]
              ELSE ObstacleDetails
        d2 == IF obstacle_size >= 10
              THEN [d1 EXCEPT !.confidence_level =
                      Some(confidence_level_of(_get_int16(data, obstacle_start + 6),
                                               _get_int16(data, obstacle_start + 8)))]
              ELSE d1
        d3 == IF obstacle_size = 28 /\ Item(data, obstacle_start + 12) % 256 > 0
              THEN [d2 EXCEPT !.photo_name =
                      Some(_get_bytes(data, obstacle_start + 12, 16))]
              ELSE d2
    IN  Obstacle(x, y, d3)

_parse_obstacles(data, header) ==
    IF ~ReadOk(header, 8, 2) THEN Raise
    ELSE LET obstacle_pairs == _get_int16(header, 8) IN
         IF obstacle_pairs = 0 THEN Ret(<< >>)
         ELSE LET obstacle_size == obstacle_size_of(Len(data), obstacle_pairs) IN
              \* range(0, n, 0) raises ValueError
              IF obstacle_size = 0 THEN Raise
              ELSE IF \E k \in 0..(obstacle_pairs - 1) :
                          obstacle_raises(data, k * obstacle_size, obstacle_size)
                   THEN Raise
                   ELSE Ret([k \in 1..obstacle_pairs |->
                               obstacle_at(data, (k - 1) * obstacle_size, obstacle_size)])

---------------------------------------------------------------------------
(* _parse_mop_path                                                         *)

\* the loop over one polyline, from point i on; acc holds mop_paths,
\* points_num and mop_path_points, and raised once mask[i] is out of range
RECURSIVE mop_path_loop(_, _, _, _)
mop_path_loop(each_path, mask, i, acc) ==
    IF i >= Len(each_path) \/ acc.raised THEN acc
    ELSE IF ~IndexOk(mask, i) THEN [acc EXCEPT !.raised = TRUE]
    ELSE IF Item(mask, i) # 0
    THEN LET points == Append(acc.mop_path_points, Item(each_path, i)) IN
         IF (i + 1) < Len(mask) /\ Item(mask, i + 1) = 0
         THEN mop_path_loop(each_path, mask, i + 1,
                  [acc EXCEPT !.points_num = @ + Len(points),
                              !.mop_paths = Append(@, points),
                              !.mop_path_points = << >>])
         ELSE mop_path_loop(each_path, mask, i + 1,
                  [acc EXCEPT !.mop_path_points = points])
    ELSE mop_path_loop(each_path, mask, i + 1, acc)

\* the loop over path.path, from polyline k on
RECURSIVE mop_paths_loop(_, _, _, _)
mop_paths_loop(paths, mask, k, acc) ==
    IF k > Len(paths) \/ acc.raised THEN acc
    ELSE LET inner == mop_path_loop(paths[k], mask, 0,
                          [acc EXCEPT !.mop_path_points = << >>])
         IN  IF inner.raised THEN inner
             ELSE mop_paths_loop(paths, mask, k + 1,
                      [inner EXCEPT
                          !.points_num = @ + Len(inner.mop_path_points),
                          !.mop_paths = Append(@, inner.mop_path_points)])

_parse_mop_path(path, mask) ==
    LET acc == mop_paths_loop(path.path, mask, 1,
                   [mop_paths |-> << >>, points_num |-> 0,
                    mop_path_points |-> << >>, raised |-> FALSE])
    IN  IF acc.raised THEN Raise
        ELSE Ret(Path(acc.points_num, path.point_size, path.angle, acc.mop_paths))

---------------------------------------------------------------------------
(* RoborockImageParser                                                     *)

MAP_OUTSIDE == 0
MAP_WALL == 1
MAP_INSIDE == 255
MAP_SCAN == 7

\* cached_colors[SupportedColor.<name>]
cached_colors(name) == [color |-> name]

\* ColorsPalette.get_room_color(room_number): one colour per room number
get_room_color(room_number) == [color |-> "ROOM", room_number |-> room_number]

\* the pixel Image.new leaves where nothing was drawn
NewPixel == [color |-> "NEW"]

\* the palette preprocesses the colours of the rooms 1..16
PreprocessedRooms == 16
InitialRoomColors == [n \in 1..PreprocessedRooms |-> get_room_color(n)]

\* the mutant: the room number keeps one of the obstacle bits
_get_room_number_shift2(pixel_type) == (pixel_type % 256) \div 4

\* (pixel_type & 0xFF) >> 3
_get_room_number(pixel_type) == (pixel_type % 256) \div 8

\* the mutant: the obstacle bits are looked at before MAP_SCAN
pixel_category_obstacle_first(pixel_type) ==
    IF pixel_type = MAP_OUTSIDE THEN "MAP_OUTSIDE"
    ELSE IF pixel_type = MAP_WALL THEN "MAP_WALL"
    ELSE IF pixel_type = MAP_INSIDE THEN "MAP_INSIDE"
    ELSE IF pixel_type % 8 = 7 THEN "ROOM"
    ELSE IF pixel_type = MAP_SCAN THEN "SCAN"
    ELSE IF pixel_type % 8 = 0 THEN "GREY_WALL"
    ELSE IF pixel_type % 8 = 1 THEN "MAP_WALL_V2"
    ELSE "UNKNOWN"

\* the elif chain of the pixel loop: the colour a pixel type gets, "ROOM" for
\* the branch that colours by room number
pixel_category(pixel_type) ==
    IF pixel_type = MAP_OUTSIDE THEN "MAP_OUTSIDE"
    ELSE IF pixel_type = MAP_WALL THEN "MAP_WALL"
    ELSE IF pixel_type = MAP_INSIDE THEN "MAP_INSIDE"
    ELSE IF pixel_type = MAP_SCAN THEN "SCAN"
    ELSE LET obstacle == pixel_type % 8 IN
         IF obstacle = 0 THEN "GREY_WALL"
         ELSE IF obstacle = 1 THEN "MAP_WALL_V2"
         ELSE IF obstacle = 7 THEN "ROOM"
         ELSE "UNKNOWN"

\* int(trim.<side> * <dimension> / 100) and the sizes that follow from it
trim_left_of(tr, w) == (tr.left * w) \div 100
trim_right_of(tr, w) == (tr.right * w) \div 100
trim_top_of(tr, h) == (tr.top * h) \div 100
trim_bottom_of(tr, h) == (tr.bottom * h) \div 100
trimmed_height_of(tr, h) == h - trim_top_of(tr, h) - trim_bottom_of(tr, h)
trimmed_width_of(tr, w) == w - trim_left_of(tr, w) - trim_right_of(tr, w)
trimmed_left_width_of(tr, w) == trim_left_of(tr, w) + w

\* idx = img_x + img_x_offset, img_x_offset = trimmed_left_width * (img_y + trim_bottom)
idx_of(tr, w, h, ix, iy) == ix + trimmed_left_width_of(tr, w) * (iy + trim_bottom_of(tr, h))

\* the mutant: the carpet colour goes to the pixels with x + y even
carpet_pixel_even(cmap, idx, x, y) ==
    cmap # None /\ idx \in cmap[1] /\ (x + y) % 2 = 0

\* the condition of the first branch: the carpet colour overrides the pixel
carpet_pixel(cmap, idx, x, y) ==
    cmap # None /\ idx \in cmap[1] /\ (x + y) % 2 # 0

\* the mutant: the box of a room is the last pixel of the room
rooms_with_last(rs, room_number, room_x, room_y) ==
    [n \in DOMAIN rs \cup {room_number} |->
        IF n = room_number THEN <<room_x, room_y, room_x, room_y>> ELSE rs[n]]

\* the rooms dictionary after a room pixel at (room_x, room_y)
rooms_with(rs, room_number, room_x, room_y) ==
    IF room_number \notin DOMAIN rs
    THEN [n \in DOMAIN rs \cup {room_number} |->
            IF n = room_number THEN <<room_x, room_y, room_x, room_y>> ELSE rs[n]]
    ELSE [rs EXCEPT ![room_number] =
            <<Min(@[1], room_x), Min(@[2], room_y), Max(@[3], room_x), Max(@[4], room_y)>>]

\* the mutant: the miss starts a new dictionary that holds the one colour
room_colors_replaced(cache, room_number) ==
    IF room_number \in DOMAIN cache THEN cache
    ELSE [n \in {room_number} |-> get_room_color(room_number)]

\* the cache after the try/except KeyError of a room pixel: a room number
\* that misses is added to the palette's own dictionary
room_colors_with(cache, room_number) ==
    IF room_number \in DOMAIN cache THEN cache
    ELSE [n \in DOMAIN cache \cup {room_number} |->
            IF n = room_number THEN get_room_color(room_number) ELSE cache[n]]

\* One pass of the inner loop, at (ix, iy). st holds pixels, rooms, the
\* palette's cached_room_colors, the locals of the last pass (cur) and
\* raised, set when raw_data[idx] is out of range.
pixel_step(st, data, w, h, cmap, tr, ix, iy) ==
    LET idx == idx_of(tr, w, h, ix, iy)
        x == ix
        y == trimmed_height_of(tr, h) - iy - 1
    IN  IF ~IndexOk(data, idx) THEN [st EXCEPT !.raised = TRUE]
        ELSE
        LET pixel_type == Item(data, idx)
            category == pixel_category(pixel_type)
            room_number == _get_room_number(pixel_type)
            locals == Some([idx |-> idx, pixel_type |-> pixel_type, x |-> x, y |-> y])
        IN  IF carpet_pixel(cmap, idx, x, y)
            THEN [st EXCEPT !.pixels[<<x, y>>] = cached_colors("CARPETS"),
                            !.cur = locals]
            ELSE IF category = "ROOM"
            THEN LET cache == room_colors_with(st.cached_room_colors, room_number) IN
                 [st EXCEPT !.rooms = rooms_with(@, room_number,
                                                 ix + trim_left_of(tr, w),
                                                 iy + trim_bottom_of(tr, h)),
                            !.cached_room_colors = cache,
                            !.pixels[<<x, y>>] = cache[room_number],
                            !.cur = locals]
            ELSE [st EXCEPT !.pixels[<<x, y>>] = cached_colors(category),
                            !.cur = locals]

\* Image.new("RGBA", (trimmed_width, trimmed_height))
new_image(tw, th) == [p \in (0..(tw - 1)) \X (0..(th - 1)) |-> NewPixel]

\* the loops are over: for img_y in range(trimmed_height), for img_x in range(trimmed_width)
loop_done(tr, w, h, ix, iy) ==
    iy >= trimmed_height_of(tr, h) \/ trimmed_width_of(tr, w) <= 0

\* the state parse starts its loops in
image_start(w, h, tr, cache) ==
    [pixels |-> new_image(trimmed_width_of(tr, w), trimmed_height_of(tr, h)),
     rooms |-> << >>, cached_room_colors |-> cache, cur |-> None, raised |-> FALSE]

\* the loops from (ix, iy) to their end, or to the pass that raises
RECURSIVE image_loop(_, _, _, _, _, _, _, _)
image_loop(st, data, w, h, cmap, tr, ix, iy) ==
    IF st.raised \/ loop_done(tr, w, h, ix, iy) THEN st
    ELSE image_loop(pixel_step(st, data, w, h, cmap, tr, ix, iy), data, w, h, cmap, tr,
                    IF ix + 1 < trimmed_width_of(tr, w) THEN ix + 1 ELSE 0,
                    IF ix + 1 < trimmed_width_of(tr, w) THEN iy ELSE iy + 1)

\* what parse returns, or raises, when the loops have left st
image_result(st) ==
    [raised |-> st.raised, image |-> Some(st.pixels), rooms |-> st.rooms,
     cached_room_colors |-> st.cached_room_colors]

\* RoborockImageParser.parse as one call: image is None for a zero width or
\* height, else the pixels (scale is 1: the image is not resized)
image_parse(data, w, h, cmap, tr, cache) ==
    IF w = 0 \/ h = 0
    THEN [raised |-> FALSE, image |-> None, rooms |-> << >>, cached_room_colors |-> cache]
    ELSE image_result(image_loop(image_start(w, h, tr, cache), data, w, h, cmap, tr, 0, 0))

\* get_room_at_pixel: raw_data[x + width * y] raises only outside -len..len-1
get_room_at_pixel(data, w, x, y) ==
    IF ~IndexOk(data, x + w * y) THEN Raise
    ELSE LET pixel_type == Item(data, x + w * y) IN
         IF pixel_type \notin {MAP_INSIDE, MAP_SCAN} /\ pixel_type % 8 = 7
         THEN Ret(Some(_get_room_number(pixel_type)))
         ELSE Ret(None)

---------------------------------------------------------------------------
(* RoborockMapDataParser: the block types and the other block decoders     *)

CHARGER == 1
IMAGE == 2
PATH == 3
GOTO_PATH == 4
GOTO_PREDICTED_PATH == 5
CURRENTLY_CLEANED_ZONES == 6
GOTO_TARGET == 7
ROBOT_POSITION == 8
NO_GO_AREAS == 9
VIRTUAL_WALLS == 10
BLOCKS == 11
NO_MOPPING_AREAS == 12
OBSTACLES == 13
IGNORED_OBSTACLES == 14
OBSTACLES_WITH_PHOTO == 15
IGNORED_OBSTACLES_WITH_PHOTO == 16
CARPET_MAP == 17
MOP_PATH == 18
NO_CARPET_AREAS == 19
DIGEST == 1024

RoborockBlockType ==
    {CHARGER, IMAGE, PATH, GOTO_PATH, GOTO_PREDICTED_PATH, CURRENTLY_CLEANED_ZONES,
     GOTO_TARGET, ROBOT_POSITION, NO_GO_AREAS, VIRTUAL_WALLS, BLOCKS, NO_MOPPING_AREAS,
     OBSTACLES, IGNORED_OBSTACLES, OBSTACLES_WITH_PHOTO, IGNORED_OBSTACLES_WITH_PHOTO,
     CARPET_MAP, MOP_PATH, NO_CARPET_AREAS, DIGEST}

\* MapData(25500, 1000): every field None, additional_parameters as given
MapData(parameters) ==
    [charger |-> None, image |-> None, vacuum_position |-> None, path |-> None,
     goto_path |-> None, predicted_path |-> None, zones |-> None, goto |-> None,
     walls |-> None, no_go_areas |-> None, no_mopping_areas |-> None,
     obstacles |-> None, ignored_obstacles |-> None, obstacles_with_photo |-> None,
     ignored_obstacles_with_photo |-> None, blocks |-> None, mop_path |-> None,
     carpet_map |-> None, no_carpet_areas |-> None, rooms |-> None,
     vacuum_room |-> None, additional_parameters |-> parameters]

AdditionalParameters(major, minor, index, sequence) ==
    [major_version |-> major, minor_version |-> minor, map_index |-> index,
     map_sequence |-> sequence, is_valid |-> None]

NoParameters == AdditionalParameters(0, 0, 0, 0)

\* the indexes i with data[i] non-zero
_parse_carpet_map(data) == {i \in 0..(Len(data) - 1) : Item(data, i) # 0}

_parse_goto_target(data) ==
    IF ~ReadOk(data, 0, 4) THEN Raise
    ELSE Ret(Point(_get_int16(data, 0), _get_int16(data, 2), None))

\* the loops of _parse_walls, _parse_zones (size 8) and _parse_area (size 16):
\* pairs records of size / 2 16-bit values each, read from 0 to pairs * size - 1
fixed_records(data, header, size) ==
    IF ~ReadOk(header, 8, 2) THEN Raise
    ELSE LET pairs == _get_int16(header, 8) IN
         IF pairs * size > Len(data) THEN Raise
         ELSE Ret([k \in 1..pairs |->
                     [j \in 1..(size \div 2) |->
                        _get_int16(data, (k - 1) * size + 2 * (j - 1))]])

_parse_walls(data, header) == fixed_records(data, header, 8)
_parse_zones(data, header) == fixed_records(data, header, 8)
_parse_area(header, data) == fixed_records(data, header, 16)

\* range(start_pos, start_pos + end_pos, 4) has (end_pos + 3) / 4 positions;
\* the last one is the first whose read can be out of range
_parse_path(position, header, data) ==
    IF ~ReadOk(header, 4, 16) THEN Raise
    ELSE LET end_pos == _get_int32(header, 4)
             point_length == _get_int32(header, 8)
             point_size == _get_int32(header, 12)
             angle == _get_int32(header, 16)
             start_pos == position + 20
             n == (end_pos + 3) \div 4
         IN  IF n > 0 /\ ~ReadOk(data, start_pos + 4 * (n - 1), 4) THEN Raise
             ELSE Ret(Path(point_length, point_size, angle,
                           << [k \in 1..n |->
                                 Point(_get_int16(data, start_pos + 4 * (k - 1)),
                                       _get_int16(data, start_pos + 4 * (k - 1) + 2),
                                       None)] >>))

\* _image_to_map
_image_to_map(x) == x * 50

\* round(p / 50 - offset) for p, offset integers: Python rounds a half to even
round_map_to_image(p, offset) ==
    LET n == p - 50 * offset
        q == n \div 50
        r == n % 50
    IN  IF 2 * r < 50 THEN q
        ELSE IF 2 * r > 50 THEN q + 1
        ELSE IF q % 2 = 0 THEN q ELSE q + 1

Room(x0, y0, x1, y1, number) == [x0 |-> x0, y0 |-> y0, x1 |-> x1, y1 |-> y1, number |-> number]

ImageData(size, top, left, h, w, data) ==
    [size |-> size, top |-> top, left |-> left, height |-> h, width |-> w, data |-> data]

\* ImageData.is_empty
is_empty(image) == image.height = 0 \/ image.width = 0

\* create_empty_map_image(): an image with no pixel of the map
EmptyMapImage == new_image(0, 0)

\* _parse_image, once the image parser has answered r
image_and_rooms(r, image_size, image_top, image_left, image_height, image_width) ==
    IF r.raised THEN [raised |-> TRUE, cached_room_colors |-> r.cached_room_colors]
    ELSE [raised |-> FALSE,
          cached_room_colors |-> r.cached_room_colors,
          image |-> ImageData(image_size, image_top, image_left, image_height, image_width,
                              IF r.image = None THEN EmptyMapImage ELSE r.image[1]),
          rooms |-> [n \in DOMAIN r.rooms |->
                       Room(_image_to_map(r.rooms[n][1] + image_left),
                            _image_to_map(r.rooms[n][2] + image_top),
                            _image_to_map(r.rooms[n][3] + image_left),
                            _image_to_map(r.rooms[n][4] + image_top), n)]]

\* _parse_image; the palette's cache goes in and comes out
_parse_image(block_data_length, block_header_length, data, header, cmap, tr, cache) ==
    IF ~(\A j \in 1..4 : ReadOk(header, block_header_length - 4 * j, 4))
    THEN [raised |-> TRUE, cached_room_colors |-> cache]
    ELSE image_and_rooms(image_parse(data, _get_int32(header, block_header_length - 4),
                                     _get_int32(header, block_header_length - 8),
                                     cmap, tr, cache),
                         block_data_length,
                         _get_int32(header, block_header_length - 16),
                         _get_int32(header, block_header_length - 12),
                         _get_int32(header, block_header_length - 8),
                         _get_int32(header, block_header_length - 4))

_get_current_vacuum_room(position, data, vacuum_position) ==
    IF ~ReadOk(data, position + 2, 2) THEN Raise
    ELSE
    LET block_header_length == _get_int16(data, position + 2)
        header == _get_bytes(data, position, block_header_length)
    IN  IF ~ReadOk(header, 4, 4) THEN Raise
        ELSE
        LET block_data_length == _get_int32(header, 4)
            block_data_start == position + block_header_length
            body == _get_bytes(data, block_data_start, block_data_length)
        IN  IF ~(\A j \in {1, 3, 4} : ReadOk(header, block_header_length - 4 * j, 4))
            THEN Raise
            ELSE
            LET image_top == _get_int32(header, block_header_length - 16)
                image_left == _get_int32(header, block_header_length - 12)
                image_width == _get_int32(header, block_header_length - 4)
            IN  get_room_at_pixel(body, image_width,
                                  round_map_to_image(vacuum_position.x, image_left),
                                  round_map_to_image(vacuum_position.y, image_top))

---------------------------------------------------------------------------
(* RoborockMapDataParser.parse                                             *)

Walk(raised, md, im) == [raised |-> raised, map_data |-> md, img |-> im]

\* map_data.<field> = <decoder result>, or the decoder's exception
Assign(md, im, field, r) ==
    IF r.raised THEN Walk(TRUE, md, im)
    ELSE Walk(FALSE, [md EXCEPT ![field] = Some(r.value)], im)

\* the mutant: a block type that is not known is an error
unknown_block_raises(md, im) == Walk(TRUE, md, im)

\* case _: a debug line, nothing else
unknown_block(md, im) == Walk(FALSE, md, im)

\* the mutant: a carpet map that comes after the image block is dropped
carpet_map_block_before_image(md, im, data, block_data_start, block_data_length) ==
    IF im # None THEN Walk(FALSE, md, im)
    ELSE Walk(FALSE,
              [md EXCEPT !.carpet_map =
                  Some(_parse_carpet_map(_get_bytes(data, block_data_start, block_data_length)))],
              im)

\* case CARPET_MAP
carpet_map_block(md, im, data, block_data_start, block_data_length) ==
    Walk(FALSE,
         [md EXCEPT !.carpet_map =
             Some(_parse_carpet_map(_get_bytes(data, block_data_start, block_data_length)))],
         im)

\* the match statement
dispatch(md, im, block_type, header, data, buffer, position, block_data_start, block_data_length, block_header_length) ==
    CASE block_type = CHARGER ->
            Assign(md, im, "charger", _parse_object_position(block_data_length, data))
      [] block_type = IMAGE ->
            Walk(FALSE, md,
                 Some([img_start |-> position, img_data_length |-> block_data_length,
                       img_header_length |-> block_header_length, img_data |-> data,
                       img_header |-> header]))
      [] block_type = ROBOT_POSITION ->
            Assign(md, im, "vacuum_position", _parse_object_position(block_data_length, data))
      [] block_type = PATH -> Assign(md, im, "path", _parse_path(position, header, buffer))
      [] block_type = GOTO_PATH ->
            Assign(md, im, "goto_path", _parse_path(position, header, buffer))
      [] block_type = GOTO_PREDICTED_PATH ->
            Assign(md, im, "predicted_path", _parse_path(position, header, buffer))
      [] block_type = CURRENTLY_CLEANED_ZONES ->
            Assign(md, im, "zones", _parse_zones(data, header))
      [] block_type = GOTO_TARGET -> Assign(md, im, "goto", _parse_goto_target(data))
      [] block_type = DIGEST ->
            Walk(FALSE, [md EXCEPT !.additional_parameters.is_valid = Some(TRUE)], im)
      [] block_type = VIRTUAL_WALLS -> Assign(md, im, "walls", _parse_walls(data, header))
      [] block_type = NO_GO_AREAS -> Assign(md, im, "no_go_areas", _parse_area(header, data))
      [] block_type = NO_MOPPING_AREAS ->
            Assign(md, im, "no_mopping_areas", _parse_area(header, data))
      [] block_type = OBSTACLES -> Assign(md, im, "obstacles", _parse_obstacles(data, header))
      [] block_type = IGNORED_OBSTACLES ->
            Assign(md, im, "ignored_obstacles", _parse_obstacles(data, header))
      [] block_type = OBSTACLES_WITH_PHOTO ->
            Assign(md, im, "obstacles_with_photo", _parse_obstacles(data, header))
      [] block_type = IGNORED_OBSTACLES_WITH_PHOTO ->
            Assign(md, im, "ignored_obstacles_with_photo", _parse_obstacles(data, header))
      [] block_type = BLOCKS ->
            IF ~ReadOk(header, 8, 2) THEN Walk(TRUE, md, im)
            ELSE Walk(FALSE,
                      [md EXCEPT !.blocks = Some(_get_bytes(data, 0, _get_int16(header, 8)))],
                      im)
      [] block_type = MOP_PATH ->
            IF md.path # None
            THEN Assign(md, im, "mop_path",
                        _parse_mop_path(md.path[1],
                                        _get_bytes(buffer, block_data_start, block_data_length)))
            ELSE Walk(FALSE, md, im)
      [] block_type = CARPET_MAP ->
            carpet_map_block(md, im, buffer, block_data_start, block_data_length)
      [] block_type = NO_CARPET_AREAS ->
            Assign(md, im, "no_carpet_areas", _parse_area(header, data))
      [] OTHER -> unknown_block(md, im)

Stepped(raised, md, im, position) ==
    [raised |-> raised, map_data |-> md, img |-> im, block_start_position |-> position]

\* one pass of the while loop, at the block that starts at position
block_step(md, im, buffer, position) ==
    IF ~ReadOk(buffer, position + 2, 2) THEN Stepped(TRUE, md, im, position)
    ELSE
    LET block_header_length == _get_int16(buffer, position + 2)
        header == _get_bytes(buffer, position, block_header_length)
    IN  IF ~ReadOk(header, 0, 2) \/ ~ReadOk(header, 4, 4) THEN Stepped(TRUE, md, im, position)
        ELSE
        LET block_type == _get_int16(header, 0)
            block_data_length == _get_int32(header, 4)
            block_data_start == position + block_header_length
            data == _get_bytes(buffer, block_data_start, block_data_length)
            d == dispatch(md, im, block_type, header, data, buffer, position,
                          block_data_start, block_data_length, block_header_length)
        IN  IF d.raised THEN Stepped(TRUE, md, im, position)
            ELSE Stepped(FALSE, d.map_data, d.img,
                         position + block_data_length + _get_int8(header, 2))

\* lines 201-204: map_data.vacuum_room = room, or its exception
with_vacuum_room(md, room, cache) ==
    IF room.raised THEN [raised |-> TRUE, map_data |-> md, cached_room_colors |-> cache]
    ELSE [raised |-> FALSE, map_data |-> [md EXCEPT !.vacuum_room = room.value],
          cached_room_colors |-> cache]

\* lines 190-204, once _parse_image has answered parsed
with_image(md, im, buffer, parsed) ==
    IF parsed.raised
    THEN [raised |-> TRUE, map_data |-> md, cached_room_colors |-> parsed.cached_room_colors]
    ELSE IF /\ ~is_empty(parsed.image)
            /\ DOMAIN parsed.rooms # {}
            /\ md.vacuum_position # None
    THEN with_vacuum_room([md EXCEPT !.image = Some(parsed.image), !.rooms = Some(parsed.rooms)],
                          _get_current_vacuum_room(im[1].img_start, buffer,
                                                   md.vacuum_position[1]),
                          parsed.cached_room_colors)
    ELSE [raised |-> FALSE,
          map_data |-> [md EXCEPT !.image = Some(parsed.image), !.rooms = Some(parsed.rooms)],
          cached_room_colors |-> parsed.cached_room_colors]

\* what follows the while loop: the image, then the vacuum's room.
\* draw_map, which draws on the image, is left out.
finish(md, im, buffer, tr, cache) ==
    IF im = None
    THEN [raised |-> FALSE, map_data |-> md, cached_room_colors |-> cache]
    ELSE with_image(md, im, buffer,
                    _parse_image(im[1].img_data_length, im[1].img_header_length,
                                 im[1].img_data, im[1].img_header,
                                 md.carpet_map, tr, cache))

\* the while loop, from position to the end of buffer or to an exception
RECURSIVE walk(_, _, _, _)
walk(md, im, buffer, position) ==
    IF position >= Len(buffer) THEN Stepped(FALSE, md, im, position)
    ELSE LET s == block_step(md, im, buffer, position)
         IN  IF s.raised THEN s
             ELSE walk(s.map_data, s.img, buffer, s.block_start_position)

\* the reads of the map's own header
map_header_ok(buffer) ==
    /\ ReadOk(buffer, 2, 2) /\ ReadOk(buffer, 8, 2) /\ ReadOk(buffer, 10, 2)
    /\ ReadOk(buffer, 12, 4) /\ ReadOk(buffer, 16, 4)

map_header_parameters(buffer) ==
    AdditionalParameters(_get_int16(buffer, 8), _get_int16(buffer, 10),
                         _get_int32(buffer, 12), _get_int32(buffer, 16))

\* parse, from the call to the return
parse(buffer, tr, cache) ==
    IF ~map_header_ok(buffer)
    THEN [raised |-> TRUE, map_data |-> MapData(NoParameters), cached_room_colors |-> cache]
    ELSE LET w == walk(MapData(map_header_parameters(buffer)), None, buffer,
                       _get_int16(buffer, 2))
         IN  IF w.raised
             THEN [raised |-> TRUE, map_data |-> w.map_data, cached_room_colors |-> cache]
             ELSE finish(w.map_data, w.img, buffer, tr, cache)

---------------------------------------------------------------------------
(* The parts of the state a specification does not use stay as they are    *)
(* here.                                                                   *)

NoTrim == [left |-> 0, right |-> 0, top |-> 0, bottom |-> 0]

InitPalette == cached_room_colors = InitialRoomColors

ImageIdle ==
    /\ im_pc = "idle"
    /\ raw_data = << >> /\ width = 0 /\ height = 0 /\ carpet_map = None
    /\ img_x = 0 /\ img_y = 0 /\ cur = None
    /\ pixels = << >> /\ rooms = << >>
    /\ im_ret = None
    /\ cache_at_call = InitialRoomColors

NoPath == Path(0, 0, 0, << >>)

DecoderCall(fn, block_data_length, data, header, path, mask) ==
    [fn |-> fn, block_data_length |-> block_data_length, data |-> data,
     header |-> header, path |-> path, mask |-> mask]

DecodersIdle ==
    /\ call = DecoderCall("none", 0, << >>, << >>, NoPath, << >>)
    /\ ret = None

ParseIdle ==
    /\ pc = "idle"
    /\ raw = << >> /\ stream = << >>
    /\ block_start_position = 0
    /\ map_data = MapData(NoParameters)
    /\ img = None

---------------------------------------------------------------------------
(* RoborockImageParser.parse called again and again on one parser, one     *)
(* pixel of the loop per step. The palette and the trim belong to the      *)
(* parser; the arguments are drawn from bounded sets at each call.         *)

MaxCells == 4              \* width * height of an image

\* the trims a parser is configured with: none, the left half, the bottom
\* half, the right and the top half
Trims == {NoTrim,
          [left |-> 50, right |-> 0, top |-> 0, bottom |-> 0],
          [left |-> 0, right |-> 0, top |-> 0, bottom |-> 50],
          [left |-> 0, right |-> 50, top |-> 50, bottom |-> 0]}

\* pixel types of the images with more than one pixel: outside, a floor
\* pixel of room 1 (preprocessed) and one of room 17 (not preprocessed)
PixelCodes == {0, 15, 143}

RECURSIVE SeqsOfLen(_, _)
SeqsOfLen(S, n) ==
    IF n = 0 THEN {<< >>} ELSE {Append(s, e) : s \in SeqsOfLen(S, n - 1), e \in S}

ImageArgs(data, w, h, cmap) == [raw_data |-> data, width |-> w, height |-> h, carpet_map |-> cmap]

\* the carpet maps of an image of n pixels: none, the empty one, every
\* pixel, the pixels of even index, the pixels of odd index
CarpetMaps(n) ==
    {None, Some({}), Some(0..(n - 1)),
     Some({i \in 0..(n - 1) : i % 2 = 0}), Some({i \in 0..(n - 1) : i % 2 = 1})}

\* every image of up to MaxCells pixels over PixelCodes (a zero width or
\* height among them), with each of its carpet maps
ImageInputs ==
    UNION {{ImageArgs(data, sh[1], sh[2], cmap) :
                data \in SeqsOfLen(PixelCodes, sh[1] * sh[2]),
                cmap \in CarpetMaps(sh[1] * sh[2])} :
           sh \in {s \in (0..MaxCells) \X (0..MaxCells) : s[1] * s[2] <= MaxCells}}

\* the one-pixel images of every pixel type 0..255
OnePixelInputs == {ImageArgs(<<c>>, 1, 1, cmap) : c \in 0..255, cmap \in {None, Some({0})}}

InitImage ==
    /\ DecodersIdle /\ ParseIdle
    /\ InitPalette /\ trim \in Trims
    /\ ImageIdle

\* lines 29-43: the call, up to the loops, with arguments out of inputs
ImageParseCall(inputs) ==
    /\ im_pc = "idle"
    /\ \E a \in inputs :
        /\ raw_data' = a.raw_data /\ width' = a.width /\ height' = a.height
        /\ carpet_map' = a.carpet_map
        /\ rooms' = << >> /\ img_x' = 0 /\ img_y' = 0 /\ cur' = None
        /\ cache_at_call' = cached_room_colors
        /\ IF a.width = 0 \/ a.height = 0
           THEN /\ im_pc' = "returned"
                /\ pixels' = << >>
                /\ im_ret' = Some([image |-> None, rooms |-> << >>])
           ELSE /\ im_pc' = "loop"
                /\ pixels' = new_image(trimmed_width_of(trim, a.width),
                                       trimmed_height_of(trim, a.height))
                /\ im_ret' = None
    /\ UNCHANGED <<decoderVars, paletteVars, parseVars>>

\* lines 44-88: one pass of the inner loop
PixelStep ==
    /\ im_pc = "loop"
    /\ ~loop_done(trim, width, height, img_x, img_y)
    /\ LET st == pixel_step([pixels |-> pixels, rooms |-> rooms,
                             cached_room_colors |-> cached_room_colors,
                             cur |-> cur, raised |-> FALSE],
                            raw_data, width, height, carpet_map, trim, img_x, img_y)
       IN  /\ pixels' = st.pixels /\ rooms' = st.rooms /\ cur' = st.cur
           /\ cached_room_colors' = st.cached_room_colors
           /\ im_pc' = IF st.raised THEN "raised" ELSE "loop"
           /\ IF st.raised THEN UNCHANGED <<img_x, img_y>>
              ELSE IF img_x + 1 < trimmed_width_of(trim, width)
              THEN img_x' = img_x + 1 /\ img_y' = img_y
              ELSE img_x' = 0 /\ img_y' = img_y + 1
    /\ UNCHANGED <<decoderVars, parseVars, trim, raw_data, width, height, carpet_map, im_ret,
                   cache_at_call>>

\* lines 89-91: the loops are over (scale is 1)
ImageReturn ==
    /\ im_pc = "loop"
    /\ loop_done(trim, width, height, img_x, img_y)
    /\ im_pc' = "returned"
    /\ im_ret' = Some([image |-> Some(pixels), rooms |-> rooms])
    /\ UNCHANGED <<decoderVars, paletteVars, parseVars, raw_data, width, height, carpet_map,
                   img_x, img_y, cur, pixels, rooms, cache_at_call>>

\* the caller has the result, or the exception: the parser is free for the
\* next call, and of the call only the palette's cache is left
ImageParseDone ==
    /\ im_pc \in {"returned", "raised"}
    /\ im_pc' = "idle"
    /\ raw_data' = << >> /\ width' = 0 /\ height' = 0 /\ carpet_map' = None
    /\ img_x' = 0 /\ img_y' = 0 /\ cur' = None
    /\ pixels' = << >> /\ rooms' = << >>
    /\ im_ret' = None
    /\ cache_at_call' = cached_room_colors
    /\ UNCHANGED <<decoderVars, paletteVars, parseVars>>

ImageCall == ImageParseCall(ImageInputs)

NextImage == ImageCall \/ PixelStep \/ ImageReturn \/ ImageParseDone

SpecImage == InitImage /\ [][NextImage]_vars

\* one call on a one-pixel image of any pixel type
OnePixelCall == ImageParseCall(OnePixelInputs)

NextPixel == OnePixelCall \/ PixelStep \/ ImageReturn

SpecPixel == InitImage /\ [][NextPixel]_vars

\* the two-pixel images, a column and a row, with a pixel of any type
\* 0..255 beside a floor pixel of room 1, and every carpet map
TwoPixelInputs ==
    {ImageArgs(data, sh[1], sh[2], cmap) :
        data \in {<<c, 15>> : c \in 0..255} \cup {<<15, c>> : c \in 0..255},
        sh \in {<<1, 2>>, <<2, 1>>},
        cmap \in {None, Some({}), Some({0}), Some({1}), Some({0, 1})}}

\* one call on a two-pixel image
TwoPixelCall == ImageParseCall(TwoPixelInputs)

NextCarpet == TwoPixelCall \/ PixelStep \/ ImageReturn

SpecCarpet == InitImage /\ [][NextCarpet]_vars

---------------------------------------------------------------------------
(* The block decoders called on their own: the inputs are drawn from       *)
(* bounded sets and each action applies one decoder.                       *)

MaxPathLen == 5            \* points of a path, bytes of a mask
MaxBody == 30              \* bytes of an obstacle block's body
MaxPairs == 4              \* the record count an obstacle header declares

\* sequences over S of length 0..n
RECURSIVE SeqsUpTo(_, _)
SeqsUpTo(S, n) ==
    IF n = 0 THEN {<< >>}
    ELSE LET shorter == SeqsUpTo(S, n - 1)
         IN  shorter \cup {Append(s, e) : s \in {t \in shorter : Len(t) = n - 1}, e \in S}

Int32Bytes(n) == <<n % 256, (n \div 256) % 256, (n \div 65536) % 256, (n \div 16777216) % 256>>
Int16Bytes(n) == <<n % 256, (n \div 256) % 256>>

\* raw angles: every combination of these bytes, so 10, 255, 256, 300
\* (44, 1, 0, 0) and values up to 2^31 - 1 are among them
AngleBytes == {0, 1, 10, 44, 255}

PositionCalls ==
    {DecoderCall("position", n, Int32Bytes(25600) \o Int32Bytes(25500) \o SubSeq(a, 1, k),
                 << >>, NoPath, << >>) :
        n \in {8, 12}, k \in {0, 2, 4},
        a \in {<<b0, b1, b2, b3>> : b0 \in AngleBytes, b1 \in AngleBytes,
                                    b2 \in {0, 1, 255}, b3 \in {0, 127}}}

\* an obstacle body: every byte the same (0: no photo, 65: "A", 200: not ASCII)
ObstacleCalls ==
    {DecoderCall("obstacles", n, [i \in 1..n |-> fill],
                 <<13, 0, 10, 0>> \o Int32Bytes(n) \o Int16Bytes(pairs), NoPath, << >>) :
        n \in 0..MaxBody, pairs \in 0..MaxPairs, fill \in {0, 65, 200}}

\* the path _parse_path builds: one polyline; point i is (100 + i, 200 + i)
PathOfLength(n) == Path(n, 0, 0, << [i \in 1..n |-> Point(100 + i, 200 + i, None)] >>)

MopPathCalls ==
    {DecoderCall("mop_path", Len(mask), << >>, << >>, PathOfLength(n), mask) :
        n \in 0..MaxPathLen, mask \in SeqsUpTo({0, 1, 2}, MaxPathLen)}

DecoderCalls == PositionCalls \cup ObstacleCalls \cup MopPathCalls

InitDecoders ==
    /\ call \in DecoderCalls
    /\ ret = None
    /\ InitPalette /\ trim = NoTrim
    /\ ImageIdle /\ ParseIdle

ParseObjectPosition ==
    /\ call.fn = "position" /\ ret = None
    /\ ret' = Some(_parse_object_position(call.block_data_length, call.data))
    /\ UNCHANGED <<call, paletteVars, imageVars, parseVars>>

ParseObstacles ==
    /\ call.fn = "obstacles" /\ ret = None
    /\ ret' = Some(_parse_obstacles(call.data, call.header))
    /\ UNCHANGED <<call, paletteVars, imageVars, parseVars>>

ParseMopPath ==
    /\ call.fn = "mop_path" /\ ret = None
    /\ ret' = Some(_parse_mop_path(call.path, call.mask))
    /\ UNCHANGED <<call, paletteVars, imageVars, parseVars>>

NextDecoders == ParseObjectPosition \/ ParseObstacles \/ ParseMopPath

SpecDecoders == InitDecoders /\ [][NextDecoders]_vars

---------------------------------------------------------------------------
(* RoborockMapDataParser.parse called on maps put together from a          *)
(* catalogue of blocks, one block of the loop per step.                    *)

MaxBlocks == 2             \* blocks of a map

\* the map's own header: "rr", header length 20, version 1.0, index 3, sequence 5
MapHeader == <<114, 114>> \o Int16Bytes(20) \o Int32Bytes(0) \o Int16Bytes(1)
             \o Int16Bytes(0) \o Int32Bytes(3) \o Int32Bytes(5)

BlockBytes(type, hlen, dlen, rest, body) ==
    Int16Bytes(type) \o Int16Bytes(hlen) \o Int32Bytes(dlen) \o rest \o body

\* a block whose header and body have the lengths its header declares
WellFormed(type, rest, body) ==
    [type |-> type, wf |-> TRUE,
     bytes |-> BlockBytes(type, 8 + Len(rest), Len(body), rest, body)]

\* a block whose header declares other lengths than it has
Malformed(type, hlen, dlen, rest, body) ==
    [type |-> type, wf |-> FALSE, bytes |-> BlockBytes(type, hlen, dlen, rest, body)]

\* a 2 x 2 image at left 6, top 0: the bottom row is outside, the top row
\* is a floor pixel of room 1 and one of room 2
ImageBlock ==
    WellFormed(IMAGE, Int32Bytes(0) \o Int32Bytes(6) \o Int32Bytes(2) \o Int32Bytes(2),
               <<0, 0, 15, 23>>)

\* an image of no pixel
EmptyImageBlock ==
    WellFormed(IMAGE, Int32Bytes(0) \o Int32Bytes(0) \o Int32Bytes(0) \o Int32Bytes(0), << >>)

CarpetBlock == WellFormed(CARPET_MAP, << >>, <<1, 1, 0, 1>>)

\* the robot at (x, y) in map units, with raw angle 300
RobotBlock(x, y) ==
    WellFormed(ROBOT_POSITION, << >>, Int32Bytes(x) \o Int32Bytes(y) \o Int32Bytes(300))

\* on pixel (0, 1) of ImageBlock (6.5 - 6 = 0.5 rounds to 0), on (2, 0) to
\* the right of it, on (-1, 0) to the left of it, and far above it
RobotBlocks == {RobotBlock(325, 50), RobotBlock(380, 0), RobotBlock(256, 0),
                RobotBlock(32512, 32512)}

ChargerBlock == WellFormed(CHARGER, << >>, Int32Bytes(300) \o Int32Bytes(50))

\* a path of the points (10, 20), (30, 40)
PathBlock(type) ==
    WellFormed(type, Int32Bytes(2) \o Int32Bytes(4) \o Int32Bytes(0),
               Int16Bytes(10) \o Int16Bytes(20) \o Int16Bytes(30) \o Int16Bytes(40))

MopPathBlock == WellFormed(MOP_PATH, << >>, <<1, 0>>)

\* a type no RoborockBlockType has
UNKNOWN == 99

UnknownBlock == WellFormed(UNKNOWN, << >>, <<7, 7>>)

\* a carpet map whose header declares a body of 6 bytes, with 1 byte there
TruncatedBlock == Malformed(CARPET_MAP, 8, 6, << >>, <<1>>)

\* a header of 256 bytes declared (its low byte is 0) and no body
LongHeaderBlock == Malformed(UNKNOWN, 256, 0, << >>, << >>)

\* a header of 0 bytes declared
NoHeaderBlock == Malformed(CHARGER, 0, 8, << >>, Int32Bytes(300) \o Int32Bytes(50))

\* count records of 16-bit values counting up from 1
Records(type, count, size) ==
    WellFormed(type, Int16Bytes(count), [i \in 1..(count * size) |-> IF i % 2 = 1 THEN i ELSE 0])

\* the blocks maps are built from freely
CoreBlocks ==
    {ImageBlock, EmptyImageBlock, CarpetBlock, ChargerBlock, PathBlock(PATH), MopPathBlock,
     UnknownBlock, TruncatedBlock, LongHeaderBlock, NoHeaderBlock} \cup RobotBlocks

\* the blocks of the other types, one of each
OtherBlocks ==
    {PathBlock(GOTO_PATH), PathBlock(GOTO_PREDICTED_PATH),
     Records(CURRENTLY_CLEANED_ZONES, 1, 8), Records(VIRTUAL_WALLS, 2, 8),
     Records(NO_GO_AREAS, 1, 16), Records(NO_MOPPING_AREAS, 1, 16),
     Records(NO_CARPET_AREAS, 1, 16),
     WellFormed(GOTO_TARGET, << >>, Int16Bytes(10) \o Int16Bytes(20)),
     WellFormed(DIGEST, << >>, <<9, 9, 9>>),
     WellFormed(BLOCKS, Int16Bytes(2), <<3, 4>>),
     Records(OBSTACLES, 1, 5), Records(IGNORED_OBSTACLES, 1, 6),
     Records(OBSTACLES_WITH_PHOTO, 1, 10), Records(IGNORED_OBSTACLES_WITH_PHOTO, 1, 28)}

\* up to MaxBlocks core blocks; a block of another type alone, after an
\* unknown block, and before one
Streams ==
    SeqsUpTo(CoreBlocks, MaxBlocks)
    \cup {<<b>> : b \in OtherBlocks}
    \cup {<<UnknownBlock, b>> : b \in OtherBlocks}
    \cup {<<b, UnknownBlock>> : b \in OtherBlocks}

RECURSIVE Flatten(_)
Flatten(blocks) ==
    IF blocks = << >> THEN << >> ELSE Head(blocks).bytes \o Flatten(Tail(blocks))

MapOf(blocks) == MapHeader \o Flatten(blocks)

ParseArgs(blocks, buffer) == [stream |-> blocks, raw |-> buffer]

\* the maps of Streams, and a map cut off within its own header
ParseInputs ==
    {ParseArgs(s, MapOf(s)) : s \in Streams} \cup {ParseArgs(<< >>, SubSeq(MapHeader, 1, 10))}

InitParse ==
    /\ DecodersIdle /\ ImageIdle
    /\ InitPalette /\ trim \in Trims
    /\ ParseIdle

\* lines 94-105: the call, up to the loop
ParseCall ==
    /\ pc = "idle"
    /\ \E a \in ParseInputs :
        /\ raw' = a.raw /\ stream' = a.stream
        /\ img' = None
        /\ IF map_header_ok(a.raw)
           THEN /\ pc' = "scanning"
                /\ block_start_position' = _get_int16(a.raw, 2)
                /\ map_data' = MapData(map_header_parameters(a.raw))
           ELSE /\ pc' = "raised"
                /\ block_start_position' = 0
                /\ map_data' = MapData(NoParameters)
    /\ UNCHANGED <<decoderVars, paletteVars, imageVars>>

\* lines 107-174: one pass of the loop
BlockStep ==
    /\ pc = "scanning"
    /\ block_start_position < Len(raw)
    /\ LET s == block_step(map_data, img, raw, block_start_position)
       IN  /\ pc' = IF s.raised THEN "raised" ELSE "scanning"
           /\ map_data' = s.map_data /\ img' = s.img
           /\ block_start_position' = s.block_start_position
    /\ UNCHANGED <<decoderVars, paletteVars, imageVars, raw, stream>>

\* lines 176-204: the loop is over
ParseFinish ==
    /\ pc = "scanning"
    /\ block_start_position >= Len(raw)
    /\ LET f == finish(map_data, img, raw, trim, cached_room_colors)
       IN  /\ pc' = IF f.raised THEN "raised" ELSE "returned"
           /\ map_data' = f.map_data
           /\ cached_room_colors' = f.cached_room_colors
    /\ UNCHANGED <<decoderVars, imageVars, trim, raw, stream, block_start_position, img>>

\* the caller has the MapData, or the exception: the parser is free for the
\* next call
ParseDone ==
    /\ pc \in {"returned", "raised"}
    /\ pc' = "idle"
    /\ raw' = << >> /\ stream' = << >>
    /\ block_start_position' = 0
    /\ map_data' = MapData(NoParameters)
    /\ img' = None
    /\ UNCHANGED <<decoderVars, paletteVars, imageVars>>

NextParse == ParseCall \/ BlockStep \/ ParseFinish \/ ParseDone

SpecParse == InitParse /\ [][NextParse]_vars

---------------------------------------------------------------------------
(* The claims about the block decoders, checked under SpecDecoders.        *)

Returned(fn) == call.fn = fn /\ ret # None
Result == ret[1]

\* the 32-bit value at offset 8 of a position body, written out byte by byte
RawAngle(data) == data[9] + 256 * data[10] + 65536 * data[11] + 16777216 * data[12]

\* the maximal runs of points whose mask byte is non-zero, in source order
RECURSIVE MaximalRuns(_, _, _)
MaximalRuns(points, mask, i) ==
    IF i > Len(points) THEN << >>
    ELSE IF mask[i] = 0 THEN MaximalRuns(points, mask, i + 1)
    ELSE LET j == CHOOSE e \in i..Len(points) :
                      /\ \A k \in i..e : mask[k] # 0
                      /\ (e = Len(points) \/ mask[e + 1] = 0)
         IN  << SubSeq(points, i, j) >> \o MaximalRuns(points, mask, j + 1)

RECURSIVE SumOfLengths(_)
SumOfLengths(runs) == IF runs = << >> THEN 0 ELSE Len(Head(runs)) + SumOfLengths(Tail(runs))

\* C7 (as claimed): with a non-zero record count, the obstacle decoder fails
\* whenever the body length is not an exact multiple of the record count.
C7_FailsUnlessExact ==
    (/\ Returned("obstacles")
     /\ _get_int16(call.header, 8) # 0
     /\ Len(call.data) % _get_int16(call.header, 8) # 0)
    => Result.raised

\* C8 (as claimed): for a single polyline and a mask with one byte per point,
\* the mop path's polylines are exactly the maximal runs of points with a
\* non-zero mask byte, in order, none of them empty, and its point count is
\* the sum of the run lengths.
C8_MaximalRuns ==
    (Returned("mop_path") /\ Len(call.mask) = Len(call.path.path[1]))
    => /\ ~Result.raised
       /\ Result.value.path = MaximalRuns(call.path.path[1], call.mask, 1)
       /\ \A k \in 1..Len(Result.value.path) : Result.value.path[k] # << >>
       /\ Result.value.point_length = SumOfLengths(Result.value.path)

\* C10 (as amended): the angle is present exactly when the body length is
\* above 8; a raw value up to 0xFF is returned unchanged (10 stays 10); a raw
\* value above 0xFF is returned as (raw & 0xFF) - 256, a value in -256..-1,
\* so raw 300 gives -212.
C10_AngleNormalised ==
    (Returned("position") /\ ~Result.raised)
    => /\ (Result.value.a # None) <=> (call.block_data_length > 8)
       /\ Result.value.a # None =>
            LET raw_angle == RawAngle(call.data)
                a == Result.value.a[1]
            IN  /\ raw_angle <= 255 => a = raw_angle
                /\ raw_angle = 10 => a = 10
                /\ raw_angle > 255 => a = (raw_angle % 256) - 256 /\ a \in -256..-1
                /\ raw_angle = 300 => a = -212

\* C10 witness: raw 300 was decoded
C10_Witness ==
    /\ Returned("position") /\ ~Result.raised
    /\ call.block_data_length > 8
    /\ RawAngle(call.data) = 300
    /\ Result.value.a = Some(-212)

\* C10 (as claimed): as above, with the claim's example, raw 300 gives 44
C10_Raw300Gives44 ==
    (Returned("position") /\ ~Result.raised)
    => /\ (Result.value.a # None) <=> (call.block_data_length > 8)
       /\ Result.value.a # None =>
            LET raw_angle == RawAngle(call.data)
                a == Result.value.a[1]
            IN  /\ raw_angle <= 255 => a = raw_angle
                /\ raw_angle > 255 => a = (raw_angle % 256) - 256
                /\ raw_angle = 300 => a = 44

---------------------------------------------------------------------------
(* The claims about the block walker, checked under SpecParse.             *)

\* every block of the map has the lengths its header declares
StreamWellFormed == \A i \in DOMAIN stream : stream[i].wf

BlocksOfType(type) == {i \in DOMAIN stream : stream[i].type = type}

\* the loop is at a block
AtBlock == pc = "scanning" /\ block_start_position < Len(raw)

NextPass == block_step(map_data, img, raw, block_start_position)

\* C2 (as claimed): every pass of the loop either raises or leaves the block
\* start position strictly greater than it was, so the loop ends.
C2_EachPassAdvances ==
    AtBlock => (NextPass.raised \/ NextPass.block_start_position > block_start_position)

\* the header or the body the block at the position declares ends past the
\* end of the buffer
DeclaredPastEnd ==
    /\ ReadOk(raw, block_start_position + 2, 2)
    /\ LET block_header_length == _get_int16(raw, block_start_position + 2)
           header == _get_bytes(raw, block_start_position, block_header_length)
       IN  \/ block_start_position + block_header_length > Len(raw)
           \/ /\ ReadOk(header, 4, 4)
              /\ block_start_position + block_header_length + _get_int32(header, 4) > Len(raw)

\* C3 (as claimed): when the declared header length or body length of a
\* block reaches past the end of the buffer, the pass raises; no shortened
\* header or body is decoded.
C3_SliceExactOrFails == (AtBlock /\ DeclaredPastEnd) => NextPass.raised

\* the map with the blocks at i and j in each other's place
Swapped(i, j) == MapOf([stream EXCEPT ![i] = stream[j], ![j] = stream[i]])

\* image_parse on the body and the dimensions of the block b, with carpet map cmap
DecodedImage(b, cmap) ==
    LET block_header_length == _get_int16(b.bytes, 2)
        body == _get_bytes(b.bytes, block_header_length, _get_int32(b.bytes, 4))
        r == image_parse(body, _get_int32(b.bytes, block_header_length - 4),
                         _get_int32(b.bytes, block_header_length - 8), cmap, trim,
                         cached_room_colors)
    IN  IF r.image = None THEN EmptyMapImage ELSE r.image[1]

\* C4: when parse has returned on a map of well-formed blocks with one IMAGE
\* block and one CARPET_MAP block, the image is the one the image parser
\* makes with the carpet map of the CARPET_MAP block, and the image and the
\* rooms are those parse gives for the map with the two blocks in each
\* other's place.
C4_ImageAfterWalk ==
    (/\ pc = "returned" /\ StreamWellFormed
     /\ Cardinality(BlocksOfType(IMAGE)) = 1
     /\ Cardinality(BlocksOfType(CARPET_MAP)) = 1)
    => LET i == CHOOSE k \in BlocksOfType(IMAGE) : TRUE
           c == CHOOSE k \in BlocksOfType(CARPET_MAP) : TRUE
           carpet == _parse_carpet_map(_get_bytes(stream[c].bytes, 8,
                                                  _get_int32(stream[c].bytes, 4)))
           other == parse(Swapped(i, c), trim, cached_room_colors)
       IN  /\ map_data.carpet_map = Some(carpet)
           /\ map_data.image # None
           /\ map_data.image[1].data = DecodedImage(stream[i], Some(carpet))
           /\ ~other.raised
           /\ map_data.image = other.map_data.image
           /\ map_data.rooms = other.map_data.rooms

\* C4 witness: the carpet map came after the image, and a pixel of the
\* image is a carpet pixel
C4_Witness ==
    /\ pc = "returned" /\ stream = <<ImageBlock, CarpetBlock>> /\ trim = NoTrim
    /\ map_data.image # None
    /\ map_data.image[1].data[<<0, 1>>] = [color |-> "CARPETS"]

\* the loop is at a block whose type no RoborockBlockType has
AtUnknownBlock ==
    /\ AtBlock
    /\ ReadOk(raw, block_start_position + 2, 2)
    /\ LET header == _get_bytes(raw, block_start_position,
                                _get_int16(raw, block_start_position + 2))
       IN  /\ ReadOk(header, 0, 2) /\ ReadOk(header, 4, 4)
           /\ _get_int16(header, 0) \notin RoborockBlockType

\* block_data_length + header[2] of the block at the position
Advance ==
    LET header == _get_bytes(raw, block_start_position,
                             _get_int16(raw, block_start_position + 2))
    IN  _get_int32(header, 4) + _get_int8(header, 2)

KnownBlock(b) == b.type \in RoborockBlockType

\* C5: a pass at a block of an unknown type does not raise, leaves the
\* MapData and the image block as they are and moves the position on by the
\* body length plus the byte at header offset 2, as for any block; and when
\* parse returns on a map of well-formed blocks, the MapData is the one parse
\* gives for the map without its unknown blocks.
C5_UnknownSkipped ==
    /\ [][AtUnknownBlock =>
            /\ pc' = "scanning"
            /\ map_data' = map_data /\ img' = img
            /\ block_start_position' = block_start_position + Advance]_vars
    /\ []((pc = "returned" /\ StreamWellFormed)
          => LET known == parse(MapOf(SelectSeq(stream, KnownBlock)), trim, cached_room_colors)
             IN  ~known.raised /\ map_data = known.map_data)

\* C5 witness: the block after an unknown block was decoded
C5_Witness ==
    /\ pc = "returned" /\ stream = <<UnknownBlock, ChargerBlock>>
    /\ map_data.charger = Some(Point(300, 50, None))

\* parse has looked the vacuum's room up
RoomLookedUp ==
    /\ pc = "returned"
    /\ map_data.image # None /\ ~is_empty(map_data.image[1])
    /\ map_data.rooms # None /\ DOMAIN map_data.rooms[1] # {}
    /\ map_data.vacuum_position # None

\* C9 (as claimed): get_room_at_pixel returns only for a pixel of the image:
\* when parse has returned with the vacuum's room looked up, the pixel it
\* looked at has 0 <= x < width and 0 <= y < height.
C9_FailsOutsideImage ==
    RoomLookedUp
    => LET image == map_data.image[1]
           x == round_map_to_image(map_data.vacuum_position[1].x, image.left)
           y == round_map_to_image(map_data.vacuum_position[1].y, image.top)
       IN  x >= 0 /\ x < image.width /\ y >= 0 /\ y < image.height

---------------------------------------------------------------------------
(* The claims about the image parser.                                      *)

\* the colour the decision rule of the pixel classifier gives a pixel code
RuleColor(code) ==
    IF code = 0 THEN [color |-> "MAP_OUTSIDE"]
    ELSE IF code = 1 THEN [color |-> "MAP_WALL"]
    ELSE IF code = 255 THEN [color |-> "MAP_INSIDE"]
    ELSE IF code = 7 THEN [color |-> "SCAN"]
    ELSE CASE code % 8 = 0 -> [color |-> "GREY_WALL"]
           [] code % 8 = 1 -> [color |-> "MAP_WALL_V2"]
           [] code % 8 = 7 -> [color |-> "ROOM", room_number |-> (code % 256) \div 8]
           [] OTHER -> [color |-> "UNKNOWN"]

RuleRoomFloor(code) == code \notin {0, 1, 255, 7} /\ code % 8 = 7

\* the last pixel the loop went through was not given the carpet colour
LastPixelClassified ==
    /\ im_pc \in {"loop", "returned"}
    /\ cur # None
    /\ ~(carpet_map # None /\ cur[1].idx \in carpet_map[1] /\ (cur[1].x + cur[1].y) % 2 = 1)

\* C1 (SpecPixel): a pixel code 0..255 that the carpet does not override is
\* coloured by the rule 0x00 Outside, 0x01 Wall, 0xFF Inside, 0x07 Scan, else
\* by code & 0x07: 0 GreyWall, 1 WallV2, 7 RoomFloor of room (code & 0xFF) >> 3,
\* else Unknown; and a room box is recorded exactly for a RoomFloor code,
\* under that room number.
C1_Classification ==
    LastPixelClassified =>
        LET code == cur[1].pixel_type IN
        /\ code \in 0..255
        /\ pixels[<<cur[1].x, cur[1].y>>] = RuleColor(code)
        /\ DOMAIN rooms = IF RuleRoomFloor(code) THEN {(code % 256) \div 8} ELSE {}

\* C1 witness: code 0x3F was classified as the floor of room 7
C1_Witness ==
    /\ LastPixelClassified
    /\ cur[1].pixel_type = 63
    /\ pixels[<<cur[1].x, cur[1].y>>] = [color |-> "ROOM", room_number |-> 7]
    /\ DOMAIN rooms = {7}

\* the loop has been through a pixel
PixelDone == im_pc \in {"loop", "returned"} /\ cur # None

\* the source index of the last pixel is in the carpet set
OnCarpet == carpet_map # None /\ cur[1].idx \in carpet_map[1]

\* C11 (SpecCarpet): with a carpet map, a pixel whose source index is in the
\* carpet set has the carpet colour exactly when output x + output y is odd,
\* whatever its pixel code; a carpet pixel with even x + y, and a pixel not
\* in the carpet set, has the colour of the normal classification, and
\* without a carpet map no pixel has the carpet colour.
C11_Checkerboard ==
    PixelDone =>
        LET p == pixels[<<cur[1].x, cur[1].y>>]
            odd == (cur[1].x + cur[1].y) % 2 = 1
        IN  /\ OnCarpet => (p = [color |-> "CARPETS"] <=> odd)
            /\ ~(OnCarpet /\ odd) => p = RuleColor(cur[1].pixel_type)
            /\ \A q \in DOMAIN pixels : carpet_map = None => pixels[q] # [color |-> "CARPETS"]

\* C11 witness: a floor pixel of room 7 in the carpet set, at odd x + y, has
\* the carpet colour, and room 7 has no box
C11_Witness ==
    /\ PixelDone /\ OnCarpet
    /\ cur[1].pixel_type = 63
    /\ (cur[1].x + cur[1].y) % 2 = 1
    /\ pixels[<<cur[1].x, cur[1].y>>] = [color |-> "CARPETS"]
    /\ 7 \notin DOMAIN rooms

\* the coordinates, in the untrimmed source layout, of the last pixel: the
\* room_x and room_y the loop records for it
SourceX == cur[1].x + trim_left_of(trim, width)
SourceY == (trimmed_height_of(trim, height) - cur[1].y - 1) + trim_bottom_of(trim, height)

\* C12 (as claimed): for every trim the index read for an output pixel is
\* (img_x + trim_left) + width * (img_y + trim_bottom), the index of the
\* source pixel at (img_x + trim_left, img_y + trim_bottom); so a pixel
\* coloured as the floor of a room has the code of the source pixel at the
\* coordinates that went into the room's box.
C12_IndexOverSource ==
    PixelDone =>
        /\ cur[1].idx = SourceX + width * SourceY
        /\ pixels[<<cur[1].x, cur[1].y>>].color = "ROOM" =>
              /\ IndexOk(raw_data, SourceX + width * SourceY)
              /\ Item(raw_data, SourceX + width * SourceY) = cur[1].pixel_type

\* the output pixels coloured so far as the floor of room n
FloorPixels(n) == {q \in DOMAIN pixels : pixels[q] = [color |-> "ROOM", room_number |-> n]}

\* the box b contains the coordinates recorded for the output pixel q
BoxHolds(b, q) ==
    LET room_x == q[1] + trim_left_of(trim, width)
        room_y == (trimmed_height_of(trim, height) - q[2] - 1) + trim_bottom_of(trim, height)
    IN  b[1] <= room_x /\ room_x <= b[3] /\ b[2] <= room_y /\ room_y <= b[4]

\* C13 (SpecImage): while an image is decoded, a step removes no room from
\* the room mapping and leaves each room's min_x and min_y no larger and its
\* max_x and max_y no smaller; and at every step each box has
\* min_x <= max_x and min_y <= max_y and contains the coordinates of every
\* pixel coloured so far as the floor of its room, each of which has a box.
C13_BoxGrowsOutward ==
    /\ [][im_pc = "loop" =>
            \A n \in DOMAIN rooms :
                /\ n \in DOMAIN rooms'
                /\ rooms'[n][1] <= rooms[n][1] /\ rooms'[n][2] <= rooms[n][2]
                /\ rooms'[n][3] >= rooms[n][3] /\ rooms'[n][4] >= rooms[n][4]]_vars
    /\ [](im_pc \in {"loop", "returned", "raised"} =>
            /\ \A n \in DOMAIN rooms :
                  rooms[n][1] <= rooms[n][3] /\ rooms[n][2] <= rooms[n][4]
            /\ \A n \in 0..31 : \A q \in FloorPixels(n) :
                  n \in DOMAIN rooms /\ BoxHolds(rooms[n], q))

\* C13 witness: the box of a room has grown in x and in y
C13_Witness ==
    /\ im_pc = "returned"
    /\ \E n \in DOMAIN rooms : rooms[n][1] < rooms[n][3] /\ rooms[n][2] < rooms[n][4]

\* the room numbers of the floor pixels in raw_data
RoomsIn(data) == {(data[i] % 256) \div 8 : i \in {k \in 1..Len(data) : RuleRoomFloor(data[k])}}

\* C6 (as claimed): when a parse call has returned, the room-colour cache the
\* next call will see is what it was before the call.
C6_CacheUnchanged ==
    im_pc = "returned" => cached_room_colors = cache_at_call

\* C6 (as amended, SpecImage): the bounding boxes belong to one call (they
\* hold rooms of this call's pixels only), but the room-colour cache is the
\* palette's own: a call keeps every entry the cache had, adds the colour of
\* each room it puts in its room mapping, and the next call starts from the
\* cache so grown.
C6_CacheGrowsOnly ==
    /\ im_pc \in {"loop", "returned"} =>
        /\ DOMAIN rooms \subseteq RoomsIn(raw_data)
        /\ \A n \in DOMAIN cache_at_call :
              n \in DOMAIN cached_room_colors /\ cached_room_colors[n] = cache_at_call[n]
        /\ DOMAIN cached_room_colors = DOMAIN cache_at_call \cup DOMAIN rooms
    /\ im_pc = "idle" => cache_at_call = cached_room_colors /\ rooms = << >>

\* C6 witness: a call returns on a parser whose cache an earlier call grew by
\* room 17, and adds nothing
C6_Witness ==
    /\ im_pc = "returned"
    /\ 17 \in DOMAIN cache_at_call
    /\ 17 \in DOMAIN rooms
    /\ cached_room_colors = cache_at_call

====
